---- MODULE Spec2Model ----
(***************************************************************************)
(* A model of pyowm's validated value objects: the pollution indexes       *)
(* (pyowm/pollutionapi30/no2index.py and its CO-style sibling) and the     *)
(* satellite imagery metadata (pyowm/agroapi10/imagery.py).                *)
(*                                                                         *)
(* Python values are tagged records [t |-> <type name>, v |-> <payload>].  *)
(* A dict is an insertion-ordered sequence of <<key, value>> items, a list *)
(* or tuple a sequence of values.  Numbers stand for themselves; a float   *)
(* and an int with the same payload are equal numbers of different type.   *)
(***************************************************************************)
EXTENDS Integers, Sequences, FiniteSets, TLC

VARIABLES
    now,    \* the wall clock, in seconds since the epoch
    call,   \* the constructor or factory invocation under study
    pc,     \* "start" before that invocation has run, "done" after
    self,   \* the object it returned (NoObject when it raised)
    exc,    \* the exception it raised ("none" when it returned)
    stamp,  \* the wall clock that invocation read, if it read it (else 0)
    ret     \* the last accessor call on self: [op, arg, exc, val]

vars == <<now, call, pc, self, exc, stamp, ret>>

(***************************************************************************)
(* Bounds of the model.                                                    *)
(***************************************************************************)
MaxNow == 1      \* the clock runs 0..MaxNow
MaxTime == 1     \* epochs passed to constructors range over -1..MaxTime
MaxLen == 2      \* sample lists hold at most MaxLen samples
MaxVal == 2      \* sample values range over 1..MaxVal

(***************************************************************************)
(* Python values.                                                          *)
(***************************************************************************)
PyNone == [t |-> "NoneType", v |-> "None"]
PyStr(s) == [t |-> "str", v |-> s]
PyInt(n) == [t |-> "int", v |-> n]
PyFloat(n) == [t |-> "float", v |-> n]
PyList(items) == [t |-> "list", v |-> items]
PyTuple(items) == [t |-> "tuple", v |-> items]
PyDict(items) == [t |-> "dict", v |-> items]

IsNumber(x) == x.t \in {"int", "float"}

Keys(d) == {d.v[i][1] : i \in DOMAIN d.v}
Get(d, k) == d.v[CHOOSE i \in DOMAIN d.v : d.v[i][1] = k][2]

\* Python's == on the values of the model: numbers compare by value whatever
\* their type, dicts compare by content whatever the order of their keys.
RECURSIVE PyEq(_, _)
PyEq(a, b) ==
    IF IsNumber(a) /\ IsNumber(b) THEN a.v = b.v
    ELSE IF a.t # b.t THEN FALSE
    ELSE IF a.t = "dict"
        THEN /\ Keys(a) = Keys(b)
             /\ \A k \in Keys(a) : PyEq(Get(a, k), Get(b, k))
    ELSE IF a.t \in {"list", "tuple"}
        THEN /\ Len(a.v) = Len(b.v)
             /\ \A i \in DOMAIN a.v : PyEq(a.v[i], b.v[i])
    ELSE a.v = b.v

\* The outcome of a call: an exception, or a value.
Raise(e) == [exc |-> e, val |-> PyNone]
Return(x) == [exc |-> "none", val |-> x]

NoObject == [cls |-> "None"]
NoCall == [op |-> "none"]

SeqsUpTo(S, n) == UNION {[1..k -> S] : k \in 0..n}

(***************************************************************************)
(* Collaborators of the value objects.                                     *)
(***************************************************************************)
\* pyowm.weatherapi25.location.Location
Location(name, lon, lat, ID) ==
    [cls |-> "Location", name |-> name, lon |-> lon, lat |-> lat, ID |-> ID,
     country |-> PyNone]

\* Location.to_dict
Location_to_dict(loc) ==
    PyDict(<< <<"name", loc.name>>,
              <<"coordinates", PyDict(<< <<"lon", loc.lon>>, <<"lat", loc.lat>> >>)>>,
              <<"ID", loc.ID>>,
              <<"country", loc.country>> >>)

\* json.dumps: the JSON text of a value, as the tree of its tokens.  None is
\* written null, an int without and a float with a fraction part, a list or a
\* tuple as an array, a dict as an object with its members in insertion order.
RECURSIVE json_dumps(_)
json_dumps(x) ==
    CASE x.t = "NoneType" -> [j |-> "null", v |-> "null"]
      [] x.t = "int" -> [j |-> "integer", v |-> x.v]
      [] x.t = "float" -> [j |-> "real", v |-> x.v]
      [] x.t = "str" -> [j |-> "string", v |-> x.v]
      [] x.t \in {"list", "tuple"} ->
            [j |-> "array", v |-> [i \in DOMAIN x.v |-> json_dumps(x.v[i])]]
      [] x.t = "dict" ->
            [j |-> "object",
             v |-> [i \in DOMAIN x.v |-> <<x.v[i][1], json_dumps(x.v[i][2])>>]]

\* json.loads: the value a JSON text denotes; every array comes back a list.
RECURSIVE json_loads(_)
json_loads(doc) ==
    CASE doc.j = "null" -> PyNone
      [] doc.j = "integer" -> PyInt(doc.v)
      [] doc.j = "real" -> PyFloat(doc.v)
      [] doc.j = "string" -> PyStr(doc.v)
      [] doc.j = "array" -> PyList([i \in DOMAIN doc.v |-> json_loads(doc.v[i])])
      [] doc.j = "object" ->
            PyDict([i \in DOMAIN doc.v |-> <<doc.v[i][1], json_loads(doc.v[i][2])>>])

\* Location.to_JSON
Location_to_JSON(loc) == json_dumps(Location_to_dict(loc))

\* pyowm.utils.timestamps.now('unix')
timestamps_now(clock) == PyInt(clock)

\* pyowm.utils.formatting.timeformat: the stored epoch in the requested format
timeformat(timeobject, format) ==
    CASE format = "unix" -> timeobject
      [] format = "iso" -> [t |-> "str", v |-> [date |-> timeobject.v, sep |-> " ", zone |-> "+00"]]
      [] format = "date" -> [t |-> "datetime", v |-> timeobject.v]

\* pyowm.utils.formatting.ISO8601_to_UNIXtime: parses 'YYYY-MM-DD HH:MM:SS+00'.
\* A time string is modelled by its date (as the epoch it denotes), the
\* separator between date and time, and the zone suffix.
ISO8601_to_UNIXtime(iso) ==
    IF iso.v.sep = " " /\ iso.v.zone = "+00" THEN Return(PyInt(iso.v.date))
    ELSE Raise("ValueError")

\* str.replace('Z', '+00').replace('T', ' ') on a time string
ReplaceZT(s) ==
    PyStr([date |-> s.v.date,
           sep |-> IF s.v.sep = "T" THEN " " ELSE s.v.sep,
           zone |-> IF s.v.zone = "Z" THEN "+00" ELSE s.v.zone])

\* x[key] for a string key
Subscript(x, key) ==
    IF x.t = "dict"
        THEN IF key \in Keys(x) THEN Return(Get(x, key)) ELSE Raise("KeyError")
    ELSE Raise("TypeError")

\* float(x)
float(x) ==
    IF IsNumber(x) THEN Return(PyFloat(x.v))
    ELSE IF x.t = "str"
        THEN IF x.v = "2" THEN Return(PyFloat(2)) ELSE Raise("ValueError")
    ELSE Raise("TypeError")

\* d[key] = x on a dict: the entry is replaced in place, or added at the end
SetItem(d, key, x) ==
    IF key \in Keys(d)
        THEN PyDict([i \in DOMAIN d.v |-> IF d.v[i][1] = key THEN <<key, x>> ELSE d.v[i]])
    ELSE PyDict(Append(d.v, <<key, x>>))

\* str(x): a string unchanged, anything else as its text
str(x) == IF x.t = "str" THEN x ELSE PyStr([text_of |-> x])

\* '{:.12e}'.format(x): the scientific notation of a number, 12 digits after
\* the point; a string or None has no such format.
format_12e(x) ==
    IF IsNumber(x) THEN Return(PyStr([notation |-> "e", digits |-> 12, of |-> x.v]))
    ELSE IF x.t = "str" THEN Raise("ValueError")
    ELSE Raise("TypeError")

\* xml.etree.ElementTree.Element
Element(tag, text, children) == [tag |-> tag, text |-> text, children |-> children]

\* pyowm.utils.xml.create_DOM_node_from_dict: a node with one child for each
\* item of the dict whose value is not None
create_DOM_node_from_dict(d, name) ==
    LET items == SelectSeq(d.v, LAMBDA it : it[2].t # "NoneType")
    IN  Element(name, PyNone,
                [i \in DOMAIN items |-> Element(items[i][1], str(items[i][2]), <<>>)])

\* pyowm.utils.xml.annotate_with_XMLNS
annotate_with_XMLNS(root, prefix, uri) ==
    [tag |-> root.tag, text |-> root.text, children |-> root.children,
     xmlns |-> <<prefix, uri>>]

\* pyowm.utils.xml.DOM_node_to_XML
DOM_node_to_XML(root, xml_declaration) ==
    PyStr([declaration |-> xml_declaration, root |-> root])

\* Location._to_DOM
Location_to_DOM(loc) ==
    Element("location", PyNone,
            << Element("name", str(loc.name), <<>>),
               Element("coordinates", PyNone,
                       << Element("lon", str(loc.lon), <<>>),
                          Element("lat", str(loc.lat), <<>>) >>),
               Element("ID", str(loc.ID), <<>>) >>)

\* iter(x): the sequence a for loop walks
Iterate(x) ==
    IF x.t = "dict" THEN Return([i \in DOMAIN x.v |-> PyStr(x.v[i][1])])
    ELSE IF x.t \in {"list", "tuple"} THEN Return(x.v)
    ELSE Raise("TypeError")

(***************************************************************************)
(* NO2Index                                                                *)
(***************************************************************************)
\* NO2Index_new with a reference_time of 0 refused, as the message of its
\* ValueError ("must be greater than 0") would have it.
NO2Index_new_RefusesZero(reference_time, location, interval, no2_samples, reception_time) ==
    IF reference_time.v <= 0 THEN Raise("ValueError")
    ELSE IF no2_samples.t # "list" THEN Raise("ValueError")
    ELSE IF reception_time.v < 0 THEN Raise("ValueError")
    ELSE Return([cls |-> "NO2Index",
                 reference_time |-> reference_time,
                 location |-> location,
                 interval |-> interval,
                 samples |-> no2_samples,
                 reception_time |-> reception_time])

NO2Index_new(reference_time, location, interval, no2_samples, reception_time) ==
    IF reference_time.v < 0 THEN Raise("ValueError")
    ELSE IF no2_samples.t # "list" THEN Raise("ValueError")
    ELSE IF reception_time.v < 0 THEN Raise("ValueError")
    ELSE Return([cls |-> "NO2Index",
                 reference_time |-> reference_time,
                 location |-> location,
                 interval |-> interval,
                 samples |-> no2_samples,
                 reception_time |-> reception_time])

NO2Index_get_reference_time(obj, format) == timeformat(obj.reference_time, format)

NO2Index_get_reception_time(obj, format) == timeformat(obj.reception_time, format)

NO2Index_get_location(obj) == obj.location

NO2Index_get_interval(obj) == obj.interval

NO2Index_get_no2_samples(obj) == obj.samples

\* The loop of get_sample_by_label from the i-th sample on: it returns at the
\* first sample whose label equals the argument, and None falls out of its end.
RECURSIVE get_sample_by_label_from(_, _, _)
get_sample_by_label_from(samples, label, i) ==
    IF i > Len(samples) THEN Return(PyNone)
    ELSE
        LET sample == samples[i]
            sample_label == Subscript(sample, "label")
        IN  IF sample_label.exc # "none" THEN Raise(sample_label.exc)
            ELSE IF PyEq(sample_label.val, label) THEN Return(sample)
            ELSE get_sample_by_label_from(samples, label, i + 1)

\* NO2Index_get_sample_by_label walking the samples from the last to the first.
NO2Index_get_sample_by_label_Last(obj, label) ==
    LET samples == obj.samples.v
    IN  get_sample_by_label_from([i \in DOMAIN samples |-> samples[Len(samples) + 1 - i]],
                                 label, 1)

NO2Index_get_sample_by_label(obj, label) ==
    get_sample_by_label_from(obj.samples.v, label, 1)

\* NO2Index_is_forecast with <= for <.
NO2Index_is_forecast_NotStrict(obj, clock) ==
    timestamps_now(clock).v <= NO2Index_get_reference_time(obj, "unix").v

NO2Index_is_forecast(obj, clock) ==
    timestamps_now(clock).v < NO2Index_get_reference_time(obj, "unix").v

\* NO2Index_to_JSON with the samples under the key of the CO-style index.
NO2Index_to_JSON_WrongKey(obj) ==
    json_dumps(PyDict(<< <<"reference_time", obj.reference_time>>,
                         <<"location", json_loads(Location_to_JSON(obj.location))>>,
                         <<"interval", obj.interval>>,
                         <<"co_samples", obj.samples>>,
                         <<"reception_time", obj.reception_time>> >>))

NO2Index_to_JSON(obj) ==
    json_dumps(PyDict(<< <<"reference_time", obj.reference_time>>,
                         <<"location", json_loads(Location_to_JSON(obj.location))>>,
                         <<"interval", obj.interval>>,
                         <<"no2_samples", obj.samples>>,
                         <<"reception_time", obj.reception_time>> >>))

\* The three assignments of the loop of _to_DOM on the dict s, each reading
\* the item it writes: the dict as they leave it, and the exception of the
\* first that fails.  s['label'] = s['label'] leaves s as it is.
format_sample(s) ==
    IF s.t # "dict" THEN [exc |-> "TypeError", s |-> s]
    ELSE IF "label" \notin Keys(s) THEN [exc |-> "KeyError", s |-> s]
    ELSE IF "value" \notin Keys(s) THEN [exc |-> "KeyError", s |-> s]
    ELSE IF format_12e(Get(s, "value")).exc # "none"
        THEN [exc |-> format_12e(Get(s, "value")).exc, s |-> s]
    ELSE IF "precision" \notin Keys(s)
        THEN [exc |-> "KeyError",
              s |-> SetItem(s, "value", format_12e(Get(s, "value")).val)]
    ELSE IF format_12e(Get(s, "precision")).exc # "none"
        THEN [exc |-> format_12e(Get(s, "precision")).exc,
              s |-> SetItem(s, "value", format_12e(Get(s, "value")).val)]
    ELSE [exc |-> "none",
          s |-> SetItem(SetItem(s, "value", format_12e(Get(s, "value")).val),
                        "precision", format_12e(Get(s, "precision")).val)]

\* to_DOM_sample with s = smpl for s = smpl.copy(): the loop writes into the
\* stored sample.
to_DOM_sample_NoCopy(smpl) ==
    LET r == format_sample(smpl)
    IN  [exc |-> r.exc, node |-> create_DOM_node_from_dict(r.s, "no2_sample"),
         smpl |-> r.s]

\* One turn of the loop of _to_DOM: the node made of the formatted copy, and
\* the stored sample as the turn leaves it.
to_DOM_sample(smpl) ==
    LET r == format_sample(smpl)
    IN  [exc |-> r.exc, node |-> create_DOM_node_from_dict(r.s, "no2_sample"),
         smpl |-> smpl]

\* _to_DOM: the tree, and the object as the call leaves it.  The loop stops at
\* the first turn that raises.
NO2Index_to_DOM(obj) ==
    LET samples == obj.samples.v
        turns == [i \in DOMAIN samples |-> to_DOM_sample(samples[i])]
        failed == {i \in DOMAIN samples : turns[i].exc # "none"}
        last == IF failed = {} THEN Len(samples)
                ELSE CHOOSE i \in failed : \A j \in failed : i <= j
        stored == [i \in DOMAIN samples |-> IF i <= last THEN turns[i].smpl ELSE samples[i]]
        root_node ==
            Element("no2index", PyNone,
                    << Element("reference_time", str(obj.reference_time), <<>>),
                       Element("reception_time", str(obj.reception_time), <<>>),
                       Element("interval", str(obj.interval), <<>>),
                       Element("no2_samples", PyNone, [i \in DOMAIN samples |-> turns[i].node]),
                       Location_to_DOM(obj.location) >>)
    IN  [exc |-> IF failed = {} THEN "none" ELSE turns[last].exc,
         val |-> root_node,
         self |-> [obj EXCEPT !.samples = PyList(stored)]]

NO2Index_to_XML(obj, xml_declaration, xmlns) ==
    LET dom == NO2Index_to_DOM(obj)
        root_node == IF xmlns
                        THEN annotate_with_XMLNS(dom.val, "NO2INDEX_XMLNS_PREFIX",
                                                 "NO2INDEX_XMLNS_URL")
                     ELSE dom.val
    IN  IF dom.exc # "none" THEN [exc |-> dom.exc, val |-> PyNone, self |-> dom.self]
        ELSE [exc |-> "none", val |-> DOM_node_to_XML(root_node, xml_declaration),
              self |-> dom.self]

\* NO2Index_to_dict with the reference time written under both time keys.
NO2Index_to_dict_SameTime(obj) ==
    PyDict(<< <<"reference_time", obj.reference_time>>,
              <<"location", Location_to_dict(obj.location)>>,
              <<"interval", obj.interval>>,
              <<"no2_samples", obj.samples>>,
              <<"reception_time", obj.reference_time>> >>)

NO2Index_to_dict(obj) ==
    PyDict(<< <<"reference_time", obj.reference_time>>,
              <<"location", Location_to_dict(obj.location)>>,
              <<"interval", obj.interval>>,
              <<"no2_samples", obj.samples>>,
              <<"reception_time", obj.reception_time>> >>)

\* from_dict_samples with each record put in front of those of the keys
\* before it.
RECURSIVE from_dict_samples_Reversed(_, _, _)
from_dict_samples_Reversed(data, keys, i) ==
    IF i > Len(keys) THEN Return(<<>>)
    ELSE
        LET key == keys[i]
            item == IF key.t = "str" THEN Subscript(data, key.v) ELSE Raise("TypeError")
            precision == Subscript(item.val, "precision")
            value == Subscript(item.val, "value")
            rest == from_dict_samples_Reversed(data, keys, i + 1)
        IN  IF item.exc # "none" THEN Raise(item.exc)
            ELSE IF precision.exc # "none" THEN Raise(precision.exc)
            ELSE IF value.exc # "none" THEN Raise(value.exc)
            ELSE IF rest.exc # "none" THEN Raise(rest.exc)
            ELSE Return(rest.val \o <<PyDict(<< <<"label", key>>,
                                                <<"precision", precision.val>>,
                                                <<"value", value.val>> >>)>>)

\* The list comprehension of from_dict over the keys of the_dict['data'],
\* from the i-th key on: the first lookup that fails ends it.
RECURSIVE from_dict_samples(_, _, _)
from_dict_samples(data, keys, i) ==
    IF i > Len(keys) THEN Return(<<>>)
    ELSE
        LET key == keys[i]
            item == IF key.t = "str" THEN Subscript(data, key.v) ELSE Raise("TypeError")
            precision == Subscript(item.val, "precision")
            value == Subscript(item.val, "value")
            rest == from_dict_samples(data, keys, i + 1)
        IN  IF item.exc # "none" THEN Raise(item.exc)
            ELSE IF precision.exc # "none" THEN Raise(precision.exc)
            ELSE IF value.exc # "none" THEN Raise(value.exc)
            ELSE IF rest.exc # "none" THEN Raise(rest.exc)
            ELSE Return(<<PyDict(<< <<"label", key>>,
                                    <<"precision", precision.val>>,
                                    <<"value", value.val>> >>)>> \o rest.val)

\* The try block of from_dict: the fields of the index, or the first exception.
from_dict_try(the_dict, clock) ==
    LET time == Subscript(the_dict, "time")
        reference_time == ISO8601_to_UNIXtime(ReplaceZT(time.val))
        reception_time == timestamps_now(clock)
        location1 == Subscript(the_dict, "location")
        longitude == Subscript(location1.val, "longitude")
        lon == float(longitude.val)
        location2 == Subscript(the_dict, "location")
        latitude == Subscript(location2.val, "latitude")
        lat == float(latitude.val)
        data == Subscript(the_dict, "data")
        keys == Iterate(data.val)
        no2_samples == from_dict_samples(data.val, keys.val, 1)
    IN  IF time.exc # "none" THEN Raise(time.exc)
        ELSE IF time.val.t # "str" THEN Raise("AttributeError")
        ELSE IF reference_time.exc # "none" THEN Raise(reference_time.exc)
        ELSE IF location1.exc # "none" THEN Raise(location1.exc)
        ELSE IF longitude.exc # "none" THEN Raise(longitude.exc)
        ELSE IF lon.exc # "none" THEN Raise(lon.exc)
        ELSE IF location2.exc # "none" THEN Raise(location2.exc)
        ELSE IF latitude.exc # "none" THEN Raise(latitude.exc)
        ELSE IF lat.exc # "none" THEN Raise(lat.exc)
        ELSE IF data.exc # "none" THEN Raise(data.exc)
        ELSE IF keys.exc # "none" THEN Raise(keys.exc)
        ELSE IF no2_samples.exc # "none" THEN Raise(no2_samples.exc)
        ELSE Return([reference_time |-> reference_time.val,
                     reception_time |-> reception_time,
                     place |-> Location(PyNone, lon.val, lat.val, PyNone),
                     no2_samples |-> PyList(no2_samples.val)])

\* NO2Index_from_dict with the payload's time as the reception time.
NO2Index_from_dict_PayloadTime(the_dict, clock) ==
    IF the_dict.t = "NoneType" THEN Raise("ParseResponseError")
    ELSE
        LET parsed == from_dict_try(the_dict, clock)
        IN  IF parsed.exc = "KeyError" THEN Raise("ParseResponseError")
            ELSE IF parsed.exc # "none" THEN Raise(parsed.exc)
            ELSE NO2Index_new(parsed.val.reference_time, parsed.val.place, PyNone,
                              parsed.val.no2_samples, parsed.val.reference_time)

NO2Index_from_dict(the_dict, clock) ==
    IF the_dict.t = "NoneType" THEN Raise("ParseResponseError")
    ELSE
        LET parsed == from_dict_try(the_dict, clock)
        IN  IF parsed.exc = "KeyError" THEN Raise("ParseResponseError")
            ELSE IF parsed.exc # "none" THEN Raise(parsed.exc)
            ELSE NO2Index_new(parsed.val.reference_time, parsed.val.place, PyNone,
                              parsed.val.no2_samples, parsed.val.reception_time)

(***************************************************************************)
(* COIndex: the CO-style index, which keeps its samples sorted descending  *)
(* by 'value'.                                                             *)
(***************************************************************************)
\* sorted(samples, key=lambda k: k['value'], reverse=True): a stable sort, so
\* samples of equal value keep the order they were passed in.
RECURSIVE InsertDesc(_, _)
InsertDesc(sorted, s) ==
    IF sorted = <<>> THEN <<s>>
    ELSE IF Get(Head(sorted), "value").v >= Get(s, "value").v
        THEN <<Head(sorted)>> \o InsertDesc(Tail(sorted), s)
    ELSE <<s>> \o sorted

RECURSIVE SortDesc(_)
SortDesc(samples) ==
    IF samples = <<>> THEN <<>>
    ELSE InsertDesc(SortDesc(SubSeq(samples, 1, Len(samples) - 1)),
                    samples[Len(samples)])

\* COIndex_new keeping the samples in the order passed.
COIndex_new_Unsorted(reference_time, location, interval, co_samples, reception_time) ==
    IF reference_time.v < 0 THEN Raise("ValueError")
    ELSE IF co_samples.t # "list" THEN Raise("ValueError")
    ELSE IF reception_time.v < 0 THEN Raise("ValueError")
    ELSE Return([cls |-> "COIndex",
                 reference_time |-> reference_time,
                 location |-> location,
                 interval |-> interval,
                 samples |-> co_samples,
                 reception_time |-> reception_time])

COIndex_new(reference_time, location, interval, co_samples, reception_time) ==
    IF reference_time.v < 0 THEN Raise("ValueError")
    ELSE IF co_samples.t # "list" THEN Raise("ValueError")
    ELSE IF reception_time.v < 0 THEN Raise("ValueError")
    ELSE Return([cls |-> "COIndex",
                 reference_time |-> reference_time,
                 location |-> location,
                 interval |-> interval,
                 samples |-> PyList(SortDesc(co_samples.v)),
                 reception_time |-> reception_time])

COIndex_get_reference_time(obj, format) == timeformat(obj.reference_time, format)

COIndex_get_reception_time(obj, format) == timeformat(obj.reception_time, format)

COIndex_get_interval(obj) == obj.interval

COIndex_get_co_samples(obj) == obj.samples

COIndex_to_dict(obj) ==
    PyDict(<< <<"reference_time", obj.reference_time>>,
              <<"location", Location_to_dict(obj.location)>>,
              <<"interval", obj.interval>>,
              <<"co_samples", obj.samples>>,
              <<"reception_time", obj.reception_time>> >>)

COIndex_get_co_sample_with_highest_vmr(obj) ==
    IF obj.samples.v = <<>> THEN Raise("IndexError")
    ELSE Return(obj.samples.v[1])

COIndex_get_co_sample_with_lowest_vmr(obj) ==
    IF obj.samples.v = <<>> THEN Raise("IndexError")
    ELSE Return(obj.samples.v[Len(obj.samples.v)])

(***************************************************************************)
(* MetaImage and its variants MetaPNGImage, MetaTile, MetaGeoTiffImage,    *)
(* which differ by their image_type alone.                                 *)
(***************************************************************************)
MaxAzimuth == 360
MaxElevation == 90

image_type(cls) ==
    CASE cls = "MetaImage" -> PyNone
      [] cls = "MetaPNGImage" -> PyStr("PNG")
      [] cls = "MetaTile" -> PyStr("PNG")
      [] cls = "MetaGeoTiffImage" -> PyStr("GEOTIFF")

\* MetaImage_new with a sun_azimuth of 360 refused.
MetaImage_new_AzimuthBelow360(cls, url, preset, satellite_name, acquisition_time, valid_data_percentage, cloud_coverage_percentage, sun_azimuth, sun_elevation, polygon_id, stats_url) ==
    IF url.t # "str" THEN Raise("AssertionError")
    ELSE IF acquisition_time.t # "int" THEN Raise("AssertionError")
    ELSE IF ~(acquisition_time.v >= 0) THEN Raise("AssertionError")
    ELSE IF valid_data_percentage.t # "float" THEN Raise("AssertionError")
    ELSE IF ~(valid_data_percentage.v >= 0) THEN Raise("AssertionError")
    ELSE IF cloud_coverage_percentage.t # "float" THEN Raise("AssertionError")
    ELSE IF ~(cloud_coverage_percentage.v >= 0) THEN Raise("AssertionError")
    ELSE IF sun_azimuth.t # "float" THEN Raise("AssertionError")
    ELSE IF ~(sun_azimuth.v >= 0 /\ sun_azimuth.v < MaxAzimuth)
        THEN Raise("AssertionError")
    ELSE IF sun_elevation.t # "float" THEN Raise("AssertionError")
    ELSE IF ~(sun_elevation.v >= 0 /\ sun_elevation.v <= MaxElevation)
        THEN Raise("AssertionError")
    ELSE Return([cls |-> cls,
                 image_type |-> image_type(cls),
                 url |-> url,
                 preset |-> preset,
                 satellite_name |-> satellite_name,
                 acquisition_time |-> acquisition_time,
                 valid_data_percentage |-> valid_data_percentage,
                 cloud_coverage_percentage |-> cloud_coverage_percentage,
                 sun_azimuth |-> sun_azimuth,
                 sun_elevation |-> sun_elevation,
                 polygon_id |-> polygon_id,
                 stats_url |-> stats_url])

\* MetaImage_new without the assertion on the type of url.
MetaImage_new_AnyUrl(cls, url, preset, satellite_name, acquisition_time, valid_data_percentage, cloud_coverage_percentage, sun_azimuth, sun_elevation, polygon_id, stats_url) ==
    IF acquisition_time.t # "int" THEN Raise("AssertionError")
    ELSE IF ~(acquisition_time.v >= 0) THEN Raise("AssertionError")
    ELSE IF valid_data_percentage.t # "float" THEN Raise("AssertionError")
    ELSE IF ~(valid_data_percentage.v >= 0) THEN Raise("AssertionError")
    ELSE IF cloud_coverage_percentage.t # "float" THEN Raise("AssertionError")
    ELSE IF ~(cloud_coverage_percentage.v >= 0) THEN Raise("AssertionError")
    ELSE IF sun_azimuth.t # "float" THEN Raise("AssertionError")
    ELSE IF ~(sun_azimuth.v >= 0 /\ sun_azimuth.v <= MaxAzimuth)
        THEN Raise("AssertionError")
    ELSE IF sun_elevation.t # "float" THEN Raise("AssertionError")
    ELSE IF ~(sun_elevation.v >= 0 /\ sun_elevation.v <= MaxElevation)
        THEN Raise("AssertionError")
    ELSE Return([cls |-> cls,
                 image_type |-> image_type(cls),
                 url |-> url,
                 preset |-> preset,
                 satellite_name |-> satellite_name,
                 acquisition_time |-> acquisition_time,
                 valid_data_percentage |-> valid_data_percentage,
                 cloud_coverage_percentage |-> cloud_coverage_percentage,
                 sun_azimuth |-> sun_azimuth,
                 sun_elevation |-> sun_elevation,
                 polygon_id |-> polygon_id,
                 stats_url |-> stats_url])

\* The assert statements of __init__, in order: the first that fails raises.
MetaImage_new(cls, url, preset, satellite_name, acquisition_time, valid_data_percentage, cloud_coverage_percentage, sun_azimuth, sun_elevation, polygon_id, stats_url) ==
    IF url.t # "str" THEN Raise("AssertionError")
    ELSE IF acquisition_time.t # "int" THEN Raise("AssertionError")
    ELSE IF ~(acquisition_time.v >= 0) THEN Raise("AssertionError")
    ELSE IF valid_data_percentage.t # "float" THEN Raise("AssertionError")
    ELSE IF ~(valid_data_percentage.v >= 0) THEN Raise("AssertionError")
    ELSE IF cloud_coverage_percentage.t # "float" THEN Raise("AssertionError")
    ELSE IF ~(cloud_coverage_percentage.v >= 0) THEN Raise("AssertionError")
    ELSE IF sun_azimuth.t # "float" THEN Raise("AssertionError")
    ELSE IF ~(sun_azimuth.v >= 0 /\ sun_azimuth.v <= MaxAzimuth)
        THEN Raise("AssertionError")
    ELSE IF sun_elevation.t # "float" THEN Raise("AssertionError")
    ELSE IF ~(sun_elevation.v >= 0 /\ sun_elevation.v <= MaxElevation)
        THEN Raise("AssertionError")
    ELSE Return([cls |-> cls,
                 image_type |-> image_type(cls),
                 url |-> url,
                 preset |-> preset,
                 satellite_name |-> satellite_name,
                 acquisition_time |-> acquisition_time,
                 valid_data_percentage |-> valid_data_percentage,
                 cloud_coverage_percentage |-> cloud_coverage_percentage,
                 sun_azimuth |-> sun_azimuth,
                 sun_elevation |-> sun_elevation,
                 polygon_id |-> polygon_id,
                 stats_url |-> stats_url])

MetaImage_acquisition_time(obj, format) == timeformat(obj.acquisition_time, format)

(***************************************************************************)
(* SatelliteImage.  The attribute _downloaded_on exists on the object only *)
(* when __init__ assigned it: the object is a record that has the field    *)
(* downloaded_on or has not.                                               *)
(***************************************************************************)
SatelliteImage_new(metadata, data, downloaded_on) ==
    IF metadata.cls \notin {"MetaImage", "MetaPNGImage", "MetaTile", "MetaGeoTiffImage"}
        THEN Raise("AssertionError")
    ELSE IF data.cls \notin {"Image", "Tile"} THEN Raise("AssertionError")
    ELSE IF downloaded_on.t # "NoneType"
        THEN IF downloaded_on.t # "int" THEN Raise("AssertionError")
             ELSE Return([cls |-> "SatelliteImage", metadata |-> metadata,
                          data |-> data, downloaded_on |-> downloaded_on])
    ELSE Return([cls |-> "SatelliteImage", metadata |-> metadata, data |-> data])

\* Reading self._downloaded_on raises AttributeError when it was never assigned.
SatelliteImage_downloaded_on(obj, format) ==
    IF "downloaded_on" \in DOMAIN obj
        THEN Return(timeformat(obj.downloaded_on, format))
    ELSE Raise("AttributeError")

\* pyowm.agroapi10.enums.MetaImagePresetEnum and SatelliteNameEnum
MetaImagePresetEnum == {"truecolor", "falsecolor", "ndvi", "evi"}
SatelliteNameEnum == {"Landsat 8", "Sentinel-2"}

(***************************************************************************)
(* The invocations under study.                                            *)
(***************************************************************************)
Epochs == {PyInt(n) : n \in -1..MaxTime}
Labels == {PyStr("a"), PyStr("b")}
Intervals == {PyStr("day"), PyNone}
TestLocation == Location(PyStr("test"), PyFloat(12), PyFloat(43), PyInt(987))

NO2Samples ==
    {PyDict(<< <<"label", l>>, <<"precision", PyFloat(-1)>>, <<"value", PyFloat(x)>> >>) :
        l \in Labels, x \in 1..MaxVal}

NO2SampleArgs ==
    {PyList(s) : s \in SeqsUpTo(NO2Samples, MaxLen)}
        \cup {PyStr("test"), PyNone}
        \cup {PyTuple(s) : s \in SeqsUpTo(NO2Samples, 1)}

NO2Calls ==
    [fn : {"NO2Index"}, reference_time : Epochs, location : {TestLocation},
     interval : Intervals, samples : NO2SampleArgs, reception_time : Epochs]

COSamples ==
    {PyDict(<< <<"precision", PyFloat(-1)>>, <<"pressure", PyFloat(p)>>, <<"value", PyFloat(x)>> >>) :
        p \in {464, 1000}, x \in 1..MaxVal}

COSampleArgs ==
    {PyList(s) : s \in SeqsUpTo(COSamples, MaxLen)} \cup {PyStr("test"), PyNone}

COCalls ==
    [fn : {"COIndex"}, reference_time : Epochs, location : {TestLocation},
     interval : Intervals, samples : COSampleArgs, reception_time : Epochs]

\* The payloads handed to from_dict: None, or a mapping in which each
\* required key is absent, mistyped or well-formed.
Absent == [t |-> "absent", v |-> "absent"]

DictOf(items) == PyDict(SelectSeq(items, LAMBDA it : it[2].t # "absent"))

TimeString(date, sep, zone) == PyStr([date |-> date, sep |-> sep, zone |-> zone])

TimeOpts ==
    {Absent, PyInt(1), TimeString(-1, "T", "Z"), TimeString(0, " ", "+00")}
        \cup {TimeString(d, "T", "Z") : d \in 0..MaxTime}

LocationOpts ==
    {Absent, PyNone}
        \cup {DictOf(<< <<"latitude", lat>>, <<"longitude", lon>> >>) :
                lon \in {Absent, PyFloat(9), PyStr("2"), PyStr("abc")},
                lat \in {Absent, PyInt(0), PyStr("abc")}}

RecordOpts ==
    {PyDict(<< <<"precision", PyFloat(-1)>>, <<"value", PyFloat(x)>> >>) : x \in 1..MaxVal}
        \cup {PyDict(<< <<"value", PyFloat(1)>> >>),
              PyDict(<< <<"precision", PyFloat(-1)>> >>),
              PyFloat(1)}

DataKeySeqs == {<<>>, <<"a">>, <<"b">>, <<"a", "b">>, <<"b", "a">>}

DataOpts ==
    {Absent, PyNone, PyList(<<>>)}
        \cup {PyList(<<r>>) : r \in RecordOpts}
        \cup UNION {{PyDict([i \in DOMAIN ks |-> <<ks[i], rs[i]>>]) :
                        rs \in [DOMAIN ks -> RecordOpts]} : ks \in DataKeySeqs}

Payloads ==
    {PyNone}
        \cup {DictOf(<< <<"time", tm>>, <<"location", loc>>, <<"data", dt>> >>) :
                tm \in TimeOpts, loc \in LocationOpts, dt \in DataOpts}

FromDictCalls == [fn : {"NO2Index.from_dict"}, the_dict : Payloads]

IndexCalls == NO2Calls \cup COCalls \cup FromDictCalls

MetaImageClasses == {"MetaImage", "MetaPNGImage", "MetaTile", "MetaGeoTiffImage"}

MetaImageCalls ==
    [fn : MetaImageClasses,
     url : {PyStr("http://a.com"), PyStr(""), PyNone},
     preset : {PyStr("ndvi"), PyStr("sepia")},
     satellite_name : {PyStr("Landsat 8"), PyStr("Hubble")},
     acquisition_time : {PyInt(-1), PyInt(0), PyInt(1), PyFloat(1)},
     valid_data_percentage : {PyFloat(-1), PyFloat(0), PyInt(1)},
     cloud_coverage_percentage : {PyFloat(-1), PyFloat(0), PyInt(1)},
     sun_azimuth : {PyFloat(-1), PyFloat(0), PyFloat(MaxAzimuth),
                    PyFloat(MaxAzimuth + 1)},
     sun_elevation : {PyFloat(-1), PyFloat(0), PyFloat(MaxElevation),
                      PyFloat(MaxElevation + 1)},
     polygon_id : {PyNone},
     stats_url : {PyNone}]

TestMetaImage(cls) ==
    MetaImage_new(cls, PyStr("http://a.com"), PyStr("ndvi"), PyStr("Landsat 8"),
                  PyInt(1), PyFloat(0), PyFloat(0), PyFloat(0), PyFloat(0),
                  PyNone, PyNone).val

SatelliteImageCalls ==
    [fn : {"SatelliteImage"},
     metadata : {TestMetaImage("MetaPNGImage"), TestMetaImage("MetaGeoTiffImage"),
                 [cls |-> "dict"]},
     data : {[cls |-> "Image"], [cls |-> "Tile"], [cls |-> "NoneType"]},
     downloaded_on : {PyNone, PyInt(-1), PyInt(0), PyInt(1), PyFloat(1)}]

(***************************************************************************)
(* Actions.                                                                *)
(***************************************************************************)
Tick ==
    /\ now < MaxNow
    /\ now' = now + 1
    /\ UNCHANGED <<call, pc, self, exc, stamp, ret>>

Construct(r) ==
    /\ pc' = "done"
    /\ exc' = r.exc
    /\ self' = IF r.exc = "none" THEN r.val ELSE NoObject
    /\ UNCHANGED <<now, call, ret>>

NO2Index_init ==
    /\ pc = "start"
    /\ call.fn = "NO2Index"
    /\ Construct(NO2Index_new(call.reference_time, call.location, call.interval,
                              call.samples, call.reception_time))
    /\ UNCHANGED stamp

from_dict ==
    /\ pc = "start"
    /\ call.fn = "NO2Index.from_dict"
    /\ Construct(NO2Index_from_dict(call.the_dict, now))
    /\ stamp' = now

COIndex_init ==
    /\ pc = "start"
    /\ call.fn = "COIndex"
    /\ Construct(COIndex_new(call.reference_time, call.location, call.interval,
                             call.samples, call.reception_time))
    /\ UNCHANGED stamp

\* An accessor call on self: what it was, and what it returned or raised.
Called(op, arg, r) ==
    /\ ret' = [op |-> op, arg |-> arg, exc |-> r.exc, val |-> r.val]
    /\ UNCHANGED <<now, call, pc, self, exc, stamp>>

get_reference_time ==
    /\ self.cls = "NO2Index"
    /\ \E format \in {"unix", "iso", "date"} :
        Called("get_reference_time", format,
               Return(NO2Index_get_reference_time(self, format)))

get_reception_time ==
    /\ self.cls = "NO2Index"
    /\ \E format \in {"unix", "iso", "date"} :
        Called("get_reception_time", format,
               Return(NO2Index_get_reception_time(self, format)))

get_location ==
    /\ self.cls = "NO2Index"
    /\ Called("get_location", "", Return(NO2Index_get_location(self)))

get_interval ==
    /\ self.cls = "NO2Index"
    /\ Called("get_interval", "", Return(NO2Index_get_interval(self)))

get_no2_samples ==
    /\ self.cls = "NO2Index"
    /\ Called("get_no2_samples", "", Return(NO2Index_get_no2_samples(self)))

get_sample_by_label ==
    /\ self.cls = "NO2Index"
    /\ \E label \in Labels \cup {PyStr("c")} :
        Called("get_sample_by_label", label,
               NO2Index_get_sample_by_label(self, label))

\* to_XML leaves the object as _to_DOM leaves it.
to_XML ==
    /\ self.cls = "NO2Index"
    /\ \E xml_declaration \in BOOLEAN, xmlns \in BOOLEAN :
        \E r \in {NO2Index_to_XML(self, xml_declaration, xmlns)} :
            /\ ret' = [op |-> "to_XML", arg |-> <<xml_declaration, xmlns>>,
                       exc |-> r.exc, val |-> r.val]
            /\ self' = r.self
    /\ UNCHANGED <<now, call, pc, exc, stamp>>

\* is_forecast reads the clock: the call records the time it read it at.
is_forecast ==
    /\ self.cls = "NO2Index"
    /\ ret' = [op |-> "is_forecast", arg |-> "", exc |-> "none",
               val |-> NO2Index_is_forecast(self, now), at |-> now]
    /\ UNCHANGED <<now, call, pc, self, exc, stamp>>

to_JSON ==
    /\ self.cls = "NO2Index"
    /\ Called("to_JSON", "", Return(NO2Index_to_JSON(self)))

to_dict ==
    /\ self.cls = "NO2Index"
    /\ Called("to_dict", "", Return(NO2Index_to_dict(self)))

\* to_dict(), then the constructor on the fields of the mapping it returned.
NO2Index_round_trip ==
    /\ self.cls = "NO2Index"
    /\ LET d == NO2Index_to_dict(self)
       IN  Called("round_trip", "",
                  NO2Index_new(Get(d, "reference_time"), Get(d, "location"),
                               Get(d, "interval"), Get(d, "no2_samples"),
                               Get(d, "reception_time")))

COIndex_round_trip ==
    /\ self.cls = "COIndex"
    /\ LET d == COIndex_to_dict(self)
       IN  Called("round_trip", "",
                  COIndex_new(Get(d, "reference_time"), Get(d, "location"),
                              Get(d, "interval"), Get(d, "co_samples"),
                              Get(d, "reception_time")))

get_co_samples ==
    /\ self.cls = "COIndex"
    /\ Called("get_co_samples", "", Return(COIndex_get_co_samples(self)))

get_co_sample_with_highest_vmr ==
    /\ self.cls = "COIndex"
    /\ Called("get_co_sample_with_highest_vmr", "",
              COIndex_get_co_sample_with_highest_vmr(self))

get_co_sample_with_lowest_vmr ==
    /\ self.cls = "COIndex"
    /\ Called("get_co_sample_with_lowest_vmr", "",
              COIndex_get_co_sample_with_lowest_vmr(self))

InitIndex ==
    /\ now = 0
    /\ call \in IndexCalls
    /\ pc = "start"
    /\ self = NoObject
    /\ exc = "none"
    /\ stamp = 0
    /\ ret = NoCall

NextIndex ==
    \/ Tick
    \/ NO2Index_init
    \/ COIndex_init
    \/ from_dict
    \/ get_reference_time
    \/ get_reception_time
    \/ get_location
    \/ get_interval
    \/ get_no2_samples
    \/ is_forecast
    \/ to_JSON
    \/ to_dict
    \/ NO2Index_round_trip
    \/ COIndex_round_trip
    \/ get_co_samples
    \/ get_co_sample_with_highest_vmr
    \/ get_co_sample_with_lowest_vmr

SpecIndex == InitIndex /\ [][NextIndex]_vars

\* A NO2Index, and every accessor and serializer called on it in any order.
AccessorCalls ==
    {c \in NO2Calls : /\ c.samples.t = "list"
                      /\ c.reception_time = PyInt(0)
                      /\ c.interval = PyStr("day")}

InitAccessors ==
    /\ now = 0
    /\ call \in AccessorCalls
    /\ pc = "start"
    /\ self = NoObject
    /\ exc = "none"
    /\ stamp = 0
    /\ ret = NoCall

NextAccessors ==
    \/ Tick
    \/ NO2Index_init
    \/ get_reference_time
    \/ get_reception_time
    \/ get_location
    \/ get_interval
    \/ get_no2_samples
    \/ get_sample_by_label
    \/ is_forecast
    \/ to_dict
    \/ to_JSON
    \/ to_XML

SpecAccessors == InitAccessors /\ [][NextAccessors]_vars

MetaImage_init ==
    /\ pc = "start"
    /\ call.fn \in MetaImageClasses
    /\ Construct(MetaImage_new(call.fn, call.url, call.preset, call.satellite_name,
                               call.acquisition_time, call.valid_data_percentage,
                               call.cloud_coverage_percentage, call.sun_azimuth,
                               call.sun_elevation, call.polygon_id, call.stats_url))
    /\ UNCHANGED stamp

acquisition_time ==
    /\ self.cls \in MetaImageClasses
    /\ \E format \in {"unix", "iso", "date"} :
        Called("acquisition_time", format,
               Return(MetaImage_acquisition_time(self, format)))

SatelliteImage_init ==
    /\ pc = "start"
    /\ call.fn = "SatelliteImage"
    /\ Construct(SatelliteImage_new(call.metadata, call.data, call.downloaded_on))
    /\ UNCHANGED stamp

downloaded_on ==
    /\ self.cls = "SatelliteImage"
    /\ \E format \in {"unix", "iso", "date"} :
        Called("downloaded_on", format, SatelliteImage_downloaded_on(self, format))

InitImagery ==
    /\ now = 0
    /\ call \in MetaImageCalls \cup SatelliteImageCalls
    /\ pc = "start"
    /\ self = NoObject
    /\ exc = "none"
    /\ stamp = 0
    /\ ret = NoCall

NextImagery ==
    \/ MetaImage_init
    \/ acquisition_time
    \/ SatelliteImage_init
    \/ downloaded_on

SpecImagery == InitImagery /\ [][NextImagery]_vars

(***************************************************************************)
(* Properties.                                                             *)
(***************************************************************************)
Constructed(fns) == pc = "done" /\ call.fn \in fns

\* C1: constructing a pollution index succeeds for every reference_time >= 0
\* and reception_time >= 0 (0 included) when samples is a list, and raises
\* ValueError, yielding no object, when either time is negative or samples is
\* not a list.
C1_ConstructionValidates ==
    Constructed({"NO2Index", "COIndex"}) =>
        IF /\ call.reference_time.v >= 0
           /\ call.reception_time.v >= 0
           /\ call.samples.t = "list"
        THEN exc = "none" /\ self.cls = call.fn
        ELSE exc = "ValueError" /\ self = NoObject

C1_Witness ==
    /\ Constructed({"NO2Index"})
    /\ call.reference_time.v = 0
    /\ call.reception_time.v = 0
    /\ Len(call.samples.v) > 0
    /\ self.cls = "NO2Index"

Count(seq, x) == Cardinality({i \in DOMAIN seq : seq[i] = x})

IsPermutation(a, b) ==
    /\ Len(a) = Len(b)
    /\ \A i \in DOMAIN a : Count(a, a[i]) = Count(b, a[i])

IsSortedDesc(samples) ==
    \A i, k \in DOMAIN samples :
        i < k => Get(samples[i], "value").v >= Get(samples[k], "value").v

\* C2: whatever the order of the samples passed to the CO-style constructor,
\* get_co_samples() returns those samples sorted descending by 'value',
\* get_co_sample_with_highest_vmr() returns the first of them and
\* get_co_sample_with_lowest_vmr() the last.
C2_CoSamplesSortedDescending ==
    (Constructed({"COIndex"}) /\ exc = "none") =>
        LET stored == COIndex_get_co_samples(self).v
        IN  /\ IsPermutation(stored, call.samples.v)
            /\ IsSortedDesc(stored)
            /\ ret.op = "get_co_samples" => ret.val.v = stored
            /\ (ret.op = "get_co_sample_with_highest_vmr" /\ stored # <<>>) =>
                    /\ ret.exc = "none"
                    /\ ret.val = stored[1]
                    /\ \A i \in DOMAIN stored :
                        Get(ret.val, "value").v >= Get(stored[i], "value").v
            /\ (ret.op = "get_co_sample_with_lowest_vmr" /\ stored # <<>>) =>
                    /\ ret.exc = "none"
                    /\ ret.val = stored[Len(stored)]
                    /\ \A i \in DOMAIN stored :
                        Get(ret.val, "value").v <= Get(stored[i], "value").v

C2_Witness ==
    /\ Constructed({"COIndex"})
    /\ ret.op = "get_co_sample_with_highest_vmr"
    /\ Len(call.samples.v) = 2
    /\ Get(call.samples.v[1], "value").v < Get(call.samples.v[2], "value").v
    /\ ret.val = call.samples.v[2]

\* The required keys a payload lacks.
LacksRequiredKey(the_dict) ==
    \/ "time" \notin Keys(the_dict)
    \/ "location" \notin Keys(the_dict)
    \/ "data" \notin Keys(the_dict)
    \/ /\ "location" \in Keys(the_dict)
       /\ Get(the_dict, "location").t = "dict"
       /\ \/ "longitude" \notin Keys(Get(the_dict, "location"))
          \/ "latitude" \notin Keys(Get(the_dict, "location"))

\* C3: from_dict(None) raises ParseResponseError, and so does from_dict on any
\* mapping that lacks a required key ('time', 'location', its 'longitude' or
\* 'latitude', or 'data'); no object is returned.
C3_MissingKeyIsParseResponseError ==
    (Constructed({"NO2Index.from_dict"})
        /\ (call.the_dict.t = "NoneType" \/ LacksRequiredKey(call.the_dict))) =>
            exc = "ParseResponseError" /\ self = NoObject

\* C4: from_dict either returns a constructed index or raises
\* ParseResponseError: a malformed or mistyped value under a required key is
\* never reported as any other kind of error.
C4_OnlyParseResponseError ==
    Constructed({"NO2Index.from_dict"}) =>
        \/ exc = "none" /\ self.cls = "NO2Index"
        \/ exc = "ParseResponseError" /\ self = NoObject

\* C5: is_forecast() is true exactly when the wall clock it reads is strictly
\* less than the stored reference_time; it is false when the two are equal or
\* the reference_time lies in the past.
C5_IsForecastStrict ==
    ret.op = "is_forecast" => (ret.val <=> ret.at < self.reference_time.v)

C5_Witness ==
    /\ ret.op = "is_forecast"
    /\ ret.at = self.reference_time.v
    /\ ret.at > 0
    /\ ret.val = FALSE

\* C6: an index from_dict returns has a null interval, a location with null
\* name and id and the payload's longitude and latitude (as floats), and the
\* wall clock at the moment of parsing as its reception_time.
C6_FromDictStampsReception ==
    (Constructed({"NO2Index.from_dict"}) /\ exc = "none") =>
        LET place == Get(call.the_dict, "location")
        IN  /\ NO2Index_get_interval(self) = PyNone
            /\ NO2Index_get_location(self).name = PyNone
            /\ NO2Index_get_location(self).ID = PyNone
            /\ NO2Index_get_location(self).lon = float(Get(place, "longitude")).val
            /\ NO2Index_get_location(self).lat = float(Get(place, "latitude")).val
            /\ NO2Index_get_reception_time(self, "unix") = PyInt(stamp)

C6_Witness ==
    /\ Constructed({"NO2Index.from_dict"})
    /\ exc = "none"
    /\ stamp = 1
    /\ self.reference_time.v = 0
    /\ Len(self.samples.v) = 2
    /\ Get(Get(call.the_dict, "location"), "longitude").t = "str"

IndexKeys == {"reference_time", "location", "interval", "no2_samples", "reception_time"}

\* C7: the mapping parsed from to_JSON() equals to_dict(), whatever the order
\* of the keys: the same five keys with the same values.
C7_JsonMatchesDict ==
    ret.op = "to_JSON" =>
        /\ Keys(json_loads(ret.val)) = IndexKeys
        /\ Keys(NO2Index_to_dict(self)) = IndexKeys
        /\ PyEq(json_loads(ret.val), NO2Index_to_dict(self))

C7_Witness ==
    /\ ret.op = "to_JSON"
    /\ Len(self.samples.v) = 2
    /\ self.interval = PyNone
    /\ self.reference_time.v # self.reception_time.v

\* What the getters of an index return.
Getters(obj) ==
    IF obj.cls = "NO2Index"
    THEN [reference_time |-> NO2Index_get_reference_time(obj, "unix"),
          reception_time |-> NO2Index_get_reception_time(obj, "unix"),
          interval |-> NO2Index_get_interval(obj),
          samples |-> NO2Index_get_no2_samples(obj)]
    ELSE [reference_time |-> COIndex_get_reference_time(obj, "unix"),
          reception_time |-> COIndex_get_reception_time(obj, "unix"),
          interval |-> COIndex_get_interval(obj),
          samples |-> COIndex_get_co_samples(obj)]

\* C8 as stated: an index rebuilt from the fields of to_dict() has getters
\* returning exactly the values first passed to the constructor, the samples
\* included.
C8_RoundTripReturnsPassedValues ==
    (Constructed({"NO2Index", "COIndex"}) /\ ret.op = "round_trip") =>
        /\ ret.exc = "none"
        /\ Getters(ret.val) = [reference_time |-> call.reference_time,
                               reception_time |-> call.reception_time,
                               interval |-> call.interval,
                               samples |-> call.samples]

\* C8 as amended: the rebuilt index has getters returning the reference_time,
\* reception_time and interval first passed to the constructor; its samples
\* accessor returns the samples the first index stored, which are the list
\* passed for an NO2Index and that list sorted descending by 'value' for a
\* CO-style index.
C8_RoundTripPreservesFields ==
    (Constructed({"NO2Index", "COIndex"}) /\ ret.op = "round_trip") =>
        /\ ret.exc = "none"
        /\ ret.val.cls = call.fn
        /\ Getters(ret.val) = Getters(self)
        /\ Getters(ret.val).reference_time = call.reference_time
        /\ Getters(ret.val).reception_time = call.reception_time
        /\ Getters(ret.val).interval = call.interval
        /\ call.fn = "NO2Index" => Getters(ret.val).samples = call.samples
        /\ call.fn = "COIndex" =>
                /\ IsPermutation(Getters(ret.val).samples.v, call.samples.v)
                /\ IsSortedDesc(Getters(ret.val).samples.v)

C8_Witness ==
    /\ Constructed({"COIndex"})
    /\ ret.op = "round_trip"
    /\ Len(call.samples.v) = 2
    /\ self.samples # call.samples
    /\ call.reference_time.v # call.reception_time.v

\* The five range constraints of a MetaImage, on the values passed or stored.
InRanges(m) ==
    /\ m.acquisition_time.v >= 0
    /\ m.valid_data_percentage.v >= 0
    /\ m.cloud_coverage_percentage.v >= 0
    /\ m.sun_azimuth.v >= 0 /\ m.sun_azimuth.v <= MaxAzimuth
    /\ m.sun_elevation.v >= 0 /\ m.sun_elevation.v <= MaxElevation

WellTyped(m) ==
    /\ m.url.t = "str"
    /\ m.acquisition_time.t = "int"
    /\ m.valid_data_percentage.t = "float"
    /\ m.cloud_coverage_percentage.t = "float"
    /\ m.sun_azimuth.t = "float"
    /\ m.sun_elevation.t = "float"

MetaImageFields ==
    {"url", "preset", "satellite_name", "acquisition_time", "valid_data_percentage",
     "cloud_coverage_percentage", "sun_azimuth", "sun_elevation", "polygon_id",
     "stats_url"}

\* C9: constructing a MetaImage either succeeds with every field assigned or
\* raises and yields no object; it raises whenever one of the five range
\* constraints is broken, succeeds for well-typed arguments within the ranges
\* (the boundaries 0, 360 and 90 included), and so every constructed MetaImage
\* satisfies the five range constraints.
C9_MetaImageRanges ==
    Constructed(MetaImageClasses) =>
        /\ \/ /\ exc = "none"
              /\ self.cls = call.fn
              /\ \A f \in MetaImageFields : self[f] = call[f]
           \/ exc = "AssertionError" /\ self = NoObject
        /\ ~InRanges(call) => exc = "AssertionError"
        /\ (WellTyped(call) /\ InRanges(call)) => exc = "none"
        /\ exc = "none" => InRanges(self)

C9_Witness ==
    /\ Constructed(MetaImageClasses)
    /\ exc = "none"
    /\ self.acquisition_time.v = 0
    /\ self.valid_data_percentage.v = 0
    /\ self.cloud_coverage_percentage.v = 0
    /\ self.sun_azimuth.v = MaxAzimuth
    /\ self.sun_elevation.v = MaxElevation

\* C10 as stated: every constructed MetaImage has a non-empty string url, a
\* preset of the preset enumeration and a satellite_name of the satellite
\* name enumeration.
C10_UrlPresetSatelliteValidated ==
    (Constructed(MetaImageClasses) /\ exc = "none") =>
        /\ self.url.t = "str" /\ self.url.v # ""
        /\ self.preset.v \in MetaImagePresetEnum
        /\ self.satellite_name.v \in SatelliteNameEnum

\* C10 as amended: every constructed MetaImage (of any variant) has a url
\* that is a string, possibly empty, and the preset and satellite_name it was
\* passed, which the constructor stores without checking them.
C10_UrlIsStringPresetStored ==
    (Constructed(MetaImageClasses) /\ exc = "none") =>
        /\ self.url.t = "str"
        /\ self.url = call.url
        /\ self.preset = call.preset
        /\ self.satellite_name = call.satellite_name

C10_Witness ==
    /\ Constructed({"MetaTile"})
    /\ exc = "none"
    /\ self.url = PyStr("")
    /\ self.preset.v \notin MetaImagePresetEnum
    /\ self.satellite_name.v \notin SatelliteNameEnum

\* C11: every constructed SatelliteImage, one constructed without
\* downloaded_on included, stores a non-negative integer epoch, so that
\* downloaded_on(format) never fails for lack of a stored value and never
\* hands the time formatter a negative epoch.
C11_DownloadedOnStoredNonNegative ==
    /\ (Constructed({"SatelliteImage"}) /\ exc = "none") =>
            /\ "downloaded_on" \in DOMAIN self
            /\ self.downloaded_on.t = "int"
            /\ self.downloaded_on.v >= 0
    /\ ret.op = "downloaded_on" => ret.exc = "none"

\* C12: get_sample_by_label(label) returns the first sample, in stored order,
\* whose 'label' equals the argument, and None when there is none (an empty
\* list included); it never returns a sample with another label.
C12_FirstSampleWithLabel ==
    ret.op = "get_sample_by_label" =>
        LET samples == self.samples.v
            label == ret.arg
        IN  /\ ret.exc = "none"
            /\ IF \A i \in DOMAIN samples : Get(samples[i], "label") # label
                  THEN ret.val = PyNone
               ELSE /\ ret.val.t = "dict"
                    /\ Get(ret.val, "label") = label
                    /\ \E i \in DOMAIN samples :
                        /\ ret.val = samples[i]
                        /\ \A j \in 1..(i - 1) : Get(samples[j], "label") # label

C12_Witness ==
    /\ ret.op = "get_sample_by_label"
    /\ Len(self.samples.v) = 2
    /\ Get(self.samples.v[1], "label") = ret.arg
    /\ Get(self.samples.v[2], "label") = ret.arg
    /\ self.samples.v[1] # self.samples.v[2]
    /\ ret.val = self.samples.v[1]

\* C13: when from_dict succeeds the samples are one record for each key of
\* the payload's 'data' mapping, in its iteration order: the record's label
\* is the key, its precision and value are those stored under the key; the
\* labels are pairwise distinct and there are as many records as keys.
C13_FromDictOneSamplePerKey ==
    (Constructed({"NO2Index.from_dict"}) /\ exc = "none") =>
        LET data == Get(call.the_dict, "data")
            keys == Iterate(data).val
            samples == self.samples.v
        IN  /\ Len(samples) = Len(keys)
            /\ Len(samples) = Cardinality(Keys(data))
            /\ \A i \in DOMAIN samples :
                /\ [k \in DOMAIN samples[i].v |-> samples[i].v[k][1]]
                        = <<"label", "precision", "value">>
                /\ Get(samples[i], "label") = keys[i]
                /\ Get(samples[i], "precision") = Get(Get(data, keys[i].v), "precision")
                /\ Get(samples[i], "value") = Get(Get(data, keys[i].v), "value")
            /\ \A i, j \in DOMAIN samples :
                Get(samples[i], "label") = Get(samples[j], "label") => i = j

C13_Witness ==
    /\ Constructed({"NO2Index.from_dict"})
    /\ exc = "none"
    /\ Len(self.samples.v) = 2
    /\ Get(self.samples.v[1], "label") = PyStr("b")
    /\ Get(self.samples.v[2], "label") = PyStr("a")
    /\ Get(self.samples.v[1], "value") # Get(self.samples.v[2], "value")

\* C14: once a NO2Index is constructed no call of an accessor or serializer
\* (get_reference_time, get_reception_time, get_location, get_interval,
\* get_no2_samples, get_sample_by_label, is_forecast, to_dict, to_JSON,
\* to_XML) changes a stored field; to_XML formats 'value' and 'precision' on
\* copies of the samples.
C14_AccessorsChangeNoField ==
    [][(pc = "done" /\ self.cls = "NO2Index") => self' = self]_vars

C14_Witness ==
    /\ ret.op = "to_XML"
    /\ ret.exc = "none"
    /\ Len(self.samples.v) = 2
    /\ \A i \in DOMAIN self.samples.v :
        /\ Get(self.samples.v[i], "value").t = "float"
        /\ ret.val.v.root.children[4].children[i].children[3].text.t = "str"

====
